---- MODULE Spec2Model ----
(***************************************************************************)
(* Model of the exam-taking engine (TakeExam) of exam-hub-online and of    *)
(* the two tables it writes, exam_results and student_answers; of signUp   *)
(* (AuthSpec) and of the exam editor (EditorSpec).                         *)
(*                                                                         *)
(* One behaviour is one mounted TakeExam component: the fetch of the exam, *)
(* the one-second countdown, the user's clicks, and every submitExam call  *)
(* with its two awaited data-store writes.  Handlers run to completion on  *)
(* the single UI thread; an await splits a handler into separate steps.    *)
(***************************************************************************)
EXTENDS Integers, Sequences, FiniteSets, TLC

\* ---- bounds of the model ------------------------------------------------
MaxQuestions == 2       \* an exam has 0..MaxQuestions questions
MaxDuration == 1        \* duration_minutes ranges over 1..MaxDuration
MaxManual == 2          \* confirmed manual submissions per session
MaxSelects == 2         \* selectAnswer calls per session
ActWindow == 2          \* the student acts in the last ActWindow seconds or later
MaxBrowsers == 2        \* browsers (supabase clients) that run signUp
MaxSignUps == 3         \* signUp calls in all
MaxAuthCalls == 2       \* signIn and signOut calls in all
MaxFormQuestions == 2   \* questions in the editor's form and in a stored exam
MaxEdits == 1           \* changes of the editor's form other than filling the
                        \* next empty field of a question
MaxSaves == 2           \* handleSave calls per editor session
MaxAccounts == 3        \* accounts that call the data store; the last is the admin
MaxAttempts == 2        \* exam_results rows the callers insert
MaxListExams == 2       \* exams in the admin's exam list
MaxListCalls == 3       \* handleDelete and toggleActive calls per list session

\* ---- program constants --------------------------------------------------
SecondsPerMinute == 60
OptionLabels == <<"A", "B", "C", "D">>
Clickable == {"A", "B"}  \* the options the student clicks in the model

NoOption == "none"      \* answers[q.id] is undefined
NaN == -1               \* Math.round(0 / 0 * 100)
NoId == 0               \* no row id
NoUser == 0              \* useAuth().user is null
StudentId == 1          \* auth.uid() of the signed-in student
ExamId == 1             \* the :id route parameter

VARIABLES
    dbExam,             \* the exams row of ExamId: [exists, is_active, duration_minutes]
    dbQuestions,        \* its questions rows, ordered by order_index
    exam_results,       \* the exam_results table, a sequence; id = position
    student_answers,    \* the student_answers table, a set of rows
    user,               \* useAuth().user
    exam,               \* useState<Exam | null>
    questions,          \* useState<Question[]>
    currentIndex,       \* useState(0), 0-based
    answers,            \* useState<Record<string, string>>, by question id
    timeLeft,           \* useState(0)
    loading,            \* useState(true)
    submitting,         \* useState(false)
    showSubmitDialog,   \* useState(false)
    route,              \* where the router is: [path, id]
    timer,              \* the registered interval: [active, answers] (closure)
    calls,              \* every submitExam call of the session that passed the guard;
                        \* answers: what its closure holds, selected: the
                        \* answers state when it was invoked (history)
    autoSubmits,        \* number of handleAutoSubmit invocations (history)
    selects,            \* number of selectAnswer invocations (history)
    lastOp,             \* the last handler that ran (history)
    accounts,           \* auth.users: the ids of the accounts
    user_roles,         \* the user_roles table, a set of rows
    browser,            \* per browser: its auth session, the AuthProvider's
                        \* role state and its signUp call
    emailConfirm,       \* the project requires e-mail confirmation: signUp
                        \* returns the user without a session
    signUps,            \* number of signUp calls started (history)
    authCalls,          \* number of signIn and signOut calls started (history)
    store,              \* the editor's view of the data store: [exams,
                        \* questions, nextId]: two sets of rows and the next id
    editor,             \* the ExamEditor component: its state, its route
                        \* parameter, its last toast and its handleSave call
    writes,             \* number of write requests the editor issued (history)
    used,               \* [edits, saves]: the form changes counted by MaxEdits
                        \* and the handleSave calls made (history)
    lastRead,           \* the last select on exam_results or student_answers:
                        \* [caller, table, rows] (history)
    createdBy,          \* [results, answers]: who inserted each exam_results
                        \* row and each student_answers row (history)
    manage              \* the ManageExams component: its state, its calls in
                        \* flight with the exams each closure holds, and the
                        \* history of the session (started, failed, loaded)

vars == <<dbExam, dbQuestions, exam_results, student_answers, user, exam,
          questions, currentIndex, answers, timeLeft, loading, submitting,
          showSubmitDialog, route, timer, calls, autoSubmits, selects, lastOp,
          accounts, user_roles, browser, emailConfirm, signUps, authCalls,
          store, editor, writes, used, lastRead, createdBy, manage>>

\* the variables of the sign-up model
authVars == <<accounts, user_roles, browser, emailConfirm, signUps, authCalls>>
\* the variables of the editor model
editorVars == <<store, editor, writes, used>>
\* the variables of the exam-taking model
takeVars == <<dbExam, dbQuestions, exam_results, student_answers, user, exam,
              questions, currentIndex, answers, timeLeft, loading, submitting,
              showSubmitDialog, route, timer, calls, autoSubmits, selects, lastOp>>
\* the history variables of the row-level policy model
policyVars == <<lastRead, createdBy>>
\* the variables of the exam-taking model but its two tables
takeButTables == <<dbExam, dbQuestions, user, exam,
                   questions, currentIndex, answers, timeLeft, loading, submitting,
                   showSubmitDialog, route, timer, calls, autoSubmits, selects, lastOp>>
\* the variables of the exam-taking model but the student_answers table
takeButAnswers == <<dbExam, dbQuestions, exam_results, user, exam,
                    questions, currentIndex, answers, timeLeft, loading, submitting,
                    showSubmitDialog, route, timer, calls, autoSubmits, selects, lastOp>>
\* what a step of the exam-taking model leaves alone
notTake == <<authVars, editorVars, policyVars, manage>>
\* what a step of the sign-up model leaves alone
notAuth == <<takeVars, editorVars, policyVars, manage>>
\* what a step of the editor model leaves alone
notEditor == <<takeVars, authVars, policyVars, manage>>
\* what a request of the row-level policy model leaves alone
notPolicy == <<takeButTables, authVars, editorVars, manage>>
\* what a step of the exam list leaves alone
notList == <<takeVars, authVars, policyVars, editor, writes, used>>

dbVars == <<dbExam, dbQuestions, exam_results, student_answers>>

\* ---- values -------------------------------------------------------------
NoExam == [exists |-> FALSE, is_active |-> FALSE, duration_minutes |-> 0]
NoAnswers == [q \in 1..MaxQuestions |-> NoOption]
TakePath == [path |-> "/student/exam", id |-> ExamId]
StudentPath == [path |-> "/student", id |-> NoId]
ResultPath(rid) == [path |-> "/student/result", id |-> rid]
Op(name, a, b) == [op |-> name, a |-> a, b |-> b]

\* the questions table holds n rows for the exam, ids 1..n in order_index order
QuestionRows(n) ==
    [i \in 1..n |-> [id |-> i, correct_option |-> OptionLabels[((i - 1) % 4) + 1]]]

\* the component is rendered while the router is on its route
mounted == route = TakePath

\* ---- pure functions of submitExam ---------------------------------------
RECURSIVE CountCorrect(_, _, _)
CountCorrect(qs, ans, i) ==
    IF i > Len(qs) THEN 0
    ELSE (IF ans[qs[i].id] = qs[i].correct_option THEN 1 ELSE 0)
         + CountCorrect(qs, ans, i + 1)

\* Math.round((correctCount / questions.length) * 100); round half up
Score(correctCount, n) ==
    IF n = 0 THEN NaN ELSE (200 * correctCount + n) \div (2 * n)

AnswersToInsert(rid, qs, ans) ==
    { [result_id |-> rid,
       question_id |-> qs[i].id,
       selected_option |-> ans[qs[i].id],
       is_correct |-> ans[qs[i].id] = qs[i].correct_option] : i \in 1..Len(qs) }

\* ---- the countdown effect -----------------------------------------------
\* the effect giving up one second early
CountdownEffectStopsAtOne(tl) == tl > 1

\* the effect without its early return: an interval is registered at 0 too
CountdownEffectNoGuard(tl) == TRUE

\* useEffect(..., [timeLeft]): registers an interval unless timeLeft <= 0
CountdownEffect(tl) == tl > 0

\* ---- sign-up: values ----------------------------------------------------
Browsers == 1..MaxBrowsers
NoRole == "null"
\* a browser that has just mounted the AuthProvider, signed out: session is
\* the session of its supabase client; user, role and loading are the
\* provider's state (its session state always holds the same as user);
\* initialEvent and getSession are the two pieces of start-up work of the
\* effect still to run; fetches are the role fetches under way
IdleBrowser ==
    [session |-> NoUser, role |-> NoRole, pc |-> "idle", userRole |-> NoRole,
     uid |-> NoUser, result |-> "none", adminExisted |-> FALSE,
     open |-> TRUE, user |-> NoUser, loading |-> TRUE,
     initialEvent |-> TRUE, getSession |-> TRUE, fetches |-> {}]

\* a browser that does not run the application
ClosedBrowser ==
    [IdleBrowser EXCEPT !.open = FALSE, !.initialEvent = FALSE,
                        !.getSession = FALSE]

\* no account yet, every browser signed out
AuthStart ==
    /\ accounts = {}
    /\ user_roles = {}
    /\ browser = [b \in Browsers |-> IdleBrowser]
    /\ signUps = 0
    /\ authCalls = 0

\* ---- row-level policies: values ------------------------------------------
NoRead == [caller |-> NoUser, table |-> "none", rows |-> {}]
PolicyOff ==
    /\ lastRead = NoRead
    /\ createdBy = [results |-> <<>>, answers |-> {}]

\* ---- exam list: values ---------------------------------------------------
\* the ManageExams component on mount
ListMount ==
    [exams |-> {}, loading |-> TRUE, deleting |-> NoId, calls |-> {},
     started |-> 0, failed |-> FALSE, loaded |-> FALSE, open |-> TRUE]
ListOff == manage = [ListMount EXCEPT !.open = FALSE, !.loading = FALSE]

\* ---- exam editor: values -------------------------------------------------
\* a string is a sequence of characters
TextValues == {<<>>, <<" ">>, <<"Q">>}
TextFields == {"question_text", "option_a", "option_b", "option_c", "option_d"}
ExamCategory == {"basic", "prelims", "mains"}
\* the table with two defaults exchanged
DurationsExchanged == [basic |-> 40, prelims |-> 30, mains |-> 20]
DURATION_BY_CATEGORY == [basic |-> 40, prelims |-> 20, mains |-> 30]
EditorPath == "/admin/exams/editor"
ExamsPath == "/admin/exams"

Null == <<"null">>      \* the SQL null of a text column
Toast(msg, n) == [msg |-> msg, n |-> n]
NoToast == Toast("none", 0)

\* useState<ExamForm>({...})
BlankForm ==
    [title |-> <<>>, description |-> <<>>, category |-> "basic",
     duration_minutes |-> 40, is_active |-> TRUE]

\* the question addQuestion appends to a form of n questions
BlankQuestion(n) ==
    [question_text |-> <<>>, option_a |-> <<>>, option_b |-> <<>>,
     option_c |-> <<>>, option_d |-> <<>>, correct_option |-> "A",
     order_index |-> n]

\* a stored exam with n questions, as a successful save leaves it
StoredExam(category) ==
    [id |-> ExamId, title |-> <<"Q">>, description |-> Null,
     category |-> category, duration_minutes |-> DURATION_BY_CATEGORY[category],
     is_active |-> TRUE]

StoredQuestions(n) ==
    {[id |-> i, exam_id |-> ExamId, question_text |-> <<"Q">>,
      option_a |-> <<"Q">>, option_b |-> <<"Q">>, option_c |-> <<"Q">>,
      option_d |-> <<"Q">>, correct_option |-> "A", order_index |-> i - 1]
     : i \in 1..n}

\* the component on mount; id is the :id route parameter, NoId on /new
EditorMount(id) ==
    [id |-> id, loading |-> id # NoId, saving |-> FALSE, exam |-> BlankForm,
     questions |-> <<>>, route |-> EditorPath, toast |-> NoToast,
     pc |-> IF id # NoId THEN "fetchExam" ELSE "idle", examId |-> NoId]

\* the component unmounted, the router on the exam list
Unmounted(toast) ==
    [EditorMount(NoId) EXCEPT !.route = ExamsPath, !.pc = "left", !.toast = toast]

\* the editor model at rest: an empty store and the editor not open
EditorOff ==
    /\ store = [exams |-> {}, questions |-> {}, nextId |-> 1]
    /\ editor = Unmounted(NoToast)
    /\ writes = 0
    /\ used = [edits |-> 0, saves |-> 0]

\* the exam editor stores only the durations of DURATION_BY_CATEGORY, all
\* positive; an exam can be left without questions by a failed save
Init ==
    /\ AuthStart
    /\ emailConfirm = FALSE
    /\ EditorOff
    /\ PolicyOff
    /\ ListOff
    /\ \E n \in 0..MaxQuestions, d \in 1..MaxDuration, ex \in BOOLEAN, act \in BOOLEAN :
          /\ dbExam = IF ex THEN [exists |-> TRUE, is_active |-> act, duration_minutes |-> d]
                      ELSE NoExam
          /\ dbQuestions = IF ex THEN QuestionRows(n) ELSE <<>>
          /\ (~ex => n = 0 /\ d = 1 /\ ~act)
    /\ exam_results = <<>>
    /\ student_answers = {}
    /\ user = StudentId
    /\ exam = NoExam
    /\ questions = <<>>
    /\ currentIndex = 0
    /\ answers = NoAnswers
    /\ timeLeft = 0
    /\ loading = TRUE
    /\ submitting = FALSE
    /\ showSubmitDialog = FALSE
    /\ route = TakePath
    /\ timer = [active |-> CountdownEffect(0), answers |-> NoAnswers]
    /\ calls = <<>>
    /\ autoSubmits = 0
    /\ selects = 0
    /\ lastOp = Op("mount", 0, "")

\* ---- fetchExam ----------------------------------------------------------
\* the two selects of fetchExam and what follows them; examErr / questionsErr
\* are errors the data store returns for a reason other than a missing row
\* the exam select without .eq('is_active', true)
ExamErrorAnyExam(examErr) == examErr \/ ~dbExam.exists

\* .eq('id', id).eq('is_active', true).single(): an error unless one row matches
ExamError(examErr) == examErr \/ ~dbExam.exists \/ ~dbExam.is_active

\* the minutes taken for seconds
InitialTimeInMinutes(duration_minutes) == duration_minutes

\* setTimeLeft(examData.duration_minutes * 60)
InitialTime(duration_minutes) == duration_minutes * SecondsPerMinute

FetchExam(examErr, questionsErr) ==
    /\ mounted
    /\ loading
    /\ LET examError == ExamError(examErr)
           failed == examError \/ questionsErr
           tl == InitialTime(dbExam.duration_minutes)
       IN  /\ loading' = FALSE
           /\ IF failed
              THEN /\ route' = StudentPath
                   /\ UNCHANGED <<exam, questions, timeLeft, timer>>
              ELSE /\ exam' = dbExam
                   /\ questions' = dbQuestions
                   /\ timeLeft' = tl
                   /\ timer' = IF tl # timeLeft
                               THEN [active |-> CountdownEffect(tl), answers |-> answers]
                               ELSE timer
                   /\ UNCHANGED route
           /\ lastOp' = Op("fetchExam", IF failed THEN 0 ELSE 1, "")
    /\ UNCHANGED <<dbVars, user, currentIndex, answers, submitting,
                   showSubmitDialog, calls, autoSubmits, selects, notTake>>

\* ---- submitExam, up to its first await ----------------------------------
InFlight(cs) == {i \in 1..Len(cs) : cs[i].pc # "done"}

NewCall(src, ans) ==
    [src |-> src, pc |-> "insertResult", answers |-> ans, result_id |-> NoId,
     report |-> "pending", answersError |-> FALSE,
     reentered |-> submitting /\ InFlight(calls) # {},
     selected |-> answers]

\* if (!user || !exam) return; setSubmitting(true); ... insert into exam_results
SubmitExam(src, ans) ==
    IF user = NoUser \/ ~exam.exists
    THEN UNCHANGED <<calls, submitting>>
    ELSE /\ calls' = Append(calls, NewCall(src, ans))
         /\ submitting' = TRUE

\* ---- the interval callback ----------------------------------------------
\* setTimeLeft(prev => ...) and the effect that re-runs when timeLeft changed
Tick ==
    /\ mounted
    /\ timer.active
    /\ LET prev == timeLeft
           expired == prev <= 1
           next == IF expired THEN 0 ELSE prev - 1
       IN  /\ timeLeft' = next
           /\ IF expired
              THEN /\ autoSubmits' = autoSubmits + 1
                   /\ SubmitExam("auto", timer.answers)
              ELSE UNCHANGED <<autoSubmits, calls, submitting>>
           /\ timer' = IF next # prev
                       THEN [active |-> CountdownEffect(next), answers |-> answers]
                       ELSE [timer EXCEPT !.active = @ /\ ~expired]
           /\ lastOp' = Op("tick", next, "")
    /\ UNCHANGED <<dbVars, user, exam, questions, currentIndex, answers, loading,
                   showSubmitDialog, route, selects, notTake>>

\* ---- the handlers of the rendered exam view -----------------------------
\* the exam view is rendered past the loading and the empty-exam returns
rendered == mounted /\ ~loading /\ exam.exists /\ Len(questions) # 0

\* the student's clicks are drawn from the end of the countdown and after it
acting == rendered /\ timeLeft <= ActWindow

\* a selection that forgets the earlier ones: { [questionId]: option }
SetAnswerOnly(prev, questionId, option) ==
    [q \in DOMAIN prev |-> IF q = questionId THEN option ELSE NoOption]

\* (prev) => ({ ...prev, [questionId]: option })
SetAnswer(prev, questionId, option) ==
    [q \in DOMAIN prev |-> IF q = questionId THEN option ELSE prev[q]]

selectAnswer(questionId, option) ==
    /\ acting
    /\ selects < MaxSelects
    /\ selects' = selects + 1
    /\ answers' = SetAnswer(answers, questionId, option)
    /\ lastOp' = Op("selectAnswer", questionId, option)
    /\ UNCHANGED <<dbVars, user, exam, questions, currentIndex, timeLeft, loading,
                   submitting, showSubmitDialog, route, timer, calls, autoSubmits, notTake>>

\* the range test with an off-by-one upper end
InRangeInclusive(index, n) == index >= 0 /\ index <= n

\* index >= 0 && index < questions.length
InRange(index, n) == index >= 0 /\ index < n

goToQuestion(index) ==
    /\ acting
    /\ currentIndex' = IF InRange(index, Len(questions)) THEN index ELSE currentIndex
    /\ lastOp' = Op("goToQuestion", index, "")
    /\ UNCHANGED <<dbVars, user, exam, questions, answers, timeLeft, loading,
                   submitting, showSubmitDialog, route, timer, calls, autoSubmits, selects, notTake>>

\* the footer's Submit button, shown on the last question
OpenSubmitDialog ==
    /\ acting
    /\ currentIndex = Len(questions) - 1
    /\ ~showSubmitDialog
    /\ showSubmitDialog' = TRUE
    /\ lastOp' = Op("openSubmitDialog", 0, "")
    /\ UNCHANGED <<dbVars, user, exam, questions, currentIndex, answers, timeLeft,
                   loading, submitting, route, timer, calls, autoSubmits, selects, notTake>>

\* AlertDialogCancel
CancelSubmitDialog ==
    /\ acting
    /\ showSubmitDialog
    /\ showSubmitDialog' = FALSE
    /\ lastOp' = Op("cancelSubmitDialog", 0, "")
    /\ UNCHANGED <<dbVars, user, exam, questions, currentIndex, answers, timeLeft,
                   loading, submitting, route, timer, calls, autoSubmits, selects, notTake>>

Manual(cs) == {i \in 1..Len(cs) : cs[i].src = "manual"}

\* AlertDialogAction onClick={submitExam} disabled={submitting}
ConfirmSubmit ==
    /\ acting
    /\ showSubmitDialog
    /\ ~submitting
    /\ Cardinality(Manual(calls)) < MaxManual
    /\ SubmitExam("manual", answers)
    /\ showSubmitDialog' = FALSE
    /\ lastOp' = Op("confirmSubmit", 0, "")
    /\ UNCHANGED <<dbVars, user, exam, questions, currentIndex, answers, timeLeft,
                   loading, route, timer, autoSubmits, selects, notTake>>

\* ---- submitExam, after its awaits ---------------------------------------
ResultRow(c) ==
    LET correctCount == CountCorrect(questions, c.answers, 1)
    IN  [user_id |-> user,
         exam_id |-> ExamId,
         score |-> Score(correctCount, Len(questions)),
         total_questions |-> Len(questions),
         correct_answers |-> correctCount]

\* score INTEGER NOT NULL: NaN is sent as null and the row is refused
Accepts(row) == row.score # NaN

\* finally { setSubmitting(false) }, a no-op once the component is unmounted
Released == IF mounted THEN FALSE ELSE submitting

\* a submitExam that goes on to the second insert whatever the first returned
ContinueAfterResult(resultError) == "insertAnswers"

\* if (resultError) throw resultError: where submitExam continues
AfterResultInsert(resultError) == IF resultError THEN "done" ELSE "insertAnswers"

\* the insert into exam_results returns; storeOk = FALSE is a failed write
ResultInsertReturns(i, storeOk) ==
    /\ calls[i].pc = "insertResult"
    /\ LET row == ResultRow(calls[i])
           ok == storeOk /\ Accepts(row)
           rid == IF ok THEN Len(exam_results) + 1 ELSE NoId
           pc == AfterResultInsert(~ok)
       IN  /\ exam_results' = IF ok THEN Append(exam_results, row) ELSE exam_results
           /\ IF pc = "done"
              THEN /\ calls' = [calls EXCEPT ![i].pc = "done", ![i].report = "failed",
                                             ![i].answers = NoAnswers,
                                             ![i].selected = NoAnswers]
                   /\ submitting' = Released
              ELSE /\ calls' = [calls EXCEPT ![i].pc = pc, ![i].result_id = rid]
                   /\ UNCHANGED submitting
    /\ lastOp' = Op("resultInsertReturns", i, "")
    /\ UNCHANGED <<dbExam, dbQuestions, student_answers, user, exam, questions,
                   currentIndex, answers, timeLeft, loading, showSubmitDialog,
                   route, timer, autoSubmits, selects, notTake>>

\* what submitExam does once the insert into student_answers has returned;
\* the returned error is not read
AfterAnswersInsert(i, error) ==
    /\ calls' = [calls EXCEPT ![i].pc = "done", ![i].report = "success",
                              ![i].answersError = error,
                              ![i].answers = NoAnswers,
                              ![i].selected = NoAnswers]
    /\ route' = ResultPath(calls[i].result_id)
    /\ submitting' = Released

\* the insert into student_answers returns; storeOk = FALSE is a failed write
AnswersInsertReturns(i, storeOk) ==
    /\ calls[i].pc = "insertAnswers"
    /\ student_answers' =
          IF storeOk
          THEN student_answers
               \cup AnswersToInsert(calls[i].result_id, questions, calls[i].answers)
          ELSE student_answers
    /\ AfterAnswersInsert(i, ~storeOk)
    /\ lastOp' = Op("answersInsertReturns", i, "")
    /\ UNCHANGED <<dbExam, dbQuestions, exam_results, user, exam, questions,
                   currentIndex, answers, timeLeft, loading, showSubmitDialog,
                   timer, autoSubmits, selects, notTake>>

Next ==
    \/ \E examErr \in BOOLEAN, questionsErr \in BOOLEAN : FetchExam(examErr, questionsErr)
    \/ Tick
    \/ \E q \in 1..Len(questions), o \in Clickable : selectAnswer(q, o)
    \/ \E index \in -1..Len(questions) : goToQuestion(index)
    \/ OpenSubmitDialog
    \/ CancelSubmitDialog
    \/ ConfirmSubmit
    \/ \E i \in 1..Len(calls), storeOk \in BOOLEAN : ResultInsertReturns(i, storeOk)
    \/ \E i \in 1..Len(calls), storeOk \in BOOLEAN : AnswersInsertReturns(i, storeOk)

Spec == Init /\ [][Next]_vars

\* ---- the session left to its countdown ----------------------------------
\* the student never confirms a submission and every write succeeds; the
\* interval keeps firing while it is registered and every awaited insert
\* returns
TimeoutNext ==
    \/ \E examErr \in BOOLEAN, questionsErr \in BOOLEAN : FetchExam(examErr, questionsErr)
    \/ Tick
    \/ \E q \in 1..Len(questions), o \in Clickable : selectAnswer(q, o)
    \/ \E index \in -1..Len(questions) : goToQuestion(index)
    \/ OpenSubmitDialog
    \/ CancelSubmitDialog
    \/ \E i \in 1..Len(calls) : ResultInsertReturns(i, TRUE)
    \/ \E i \in 1..Len(calls) : AnswersInsertReturns(i, TRUE)

TimeoutSpec ==
    /\ Init
    /\ [][TimeoutNext]_vars
    /\ WF_vars(Tick)
    /\ WF_vars(\E i \in 1..Len(calls) : ResultInsertReturns(i, TRUE))
    /\ WF_vars(\E i \in 1..Len(calls) : AnswersInsertReturns(i, TRUE))

\* ---- sign-up (useAuth.signUp) --------------------------------------------
\* the exam-taking model at rest: no exam, nothing fetched yet
TakeIdle ==
    /\ dbExam = NoExam
    /\ dbQuestions = <<>>
    /\ user = NoUser
    /\ exam = NoExam
    /\ questions = <<>>
    /\ currentIndex = 0
    /\ answers = NoAnswers
    /\ timeLeft = 0
    /\ loading = TRUE
    /\ submitting = FALSE
    /\ showSubmitDialog = FALSE
    /\ route = StudentPath
    /\ timer = [active |-> FALSE, answers |-> NoAnswers]
    /\ calls = <<>>
    /\ autoSubmits = 0
    /\ selects = 0
    /\ lastOp = Op("mount", 0, "")

TakeOff ==
    /\ TakeIdle
    /\ exam_results = <<>>
    /\ student_answers = {}

AuthInit ==
    /\ AuthStart
    /\ emailConfirm \in BOOLEAN
    /\ TakeOff
    /\ EditorOff
    /\ PolicyOff
    /\ ListOff

\* has_role(_user_id, _role)
has_role(uid, role) == [user_id |-> uid, role |-> role] \in user_roles

Admins == {r \in user_roles : r.role = "admin"}

\* the rows of user_roles a SELECT by uid returns: policies "Users can view
\* their own role" and "Admins can view all roles"
VisibleRoles(uid) ==
    {r \in user_roles : r.user_id = uid \/ has_role(uid, "admin")}

\* policy "Users can insert their own role" and UNIQUE (user_id, role)
RoleInsertAllowed(uid, row) == uid = row.user_id /\ row \notin user_roles

\* a role fetch under way: for which user, started by the delayed callback
\* ("timer") or by the getSession continuation, and what the data store
\* answered once it has
RoleFetch(uid, via) ==
    [uid |-> uid, via |-> via, answered |-> FALSE, result |-> NoRole]

\* the callback given to onAuthStateChange, run by br with session user sess
\* (NoUser for a null session); setTimeout only schedules the fetch
onAuthStateChange(br, sess) ==
    IF sess # NoUser
    THEN [br EXCEPT !.user = sess,
                    !.fetches = @ \cup {RoleFetch(sess, "timer")}]
    ELSE [br EXCEPT !.user = NoUser, !.role = NoRole, !.loading = FALSE]

\* signUp up to its first await: the admin pre-check only for userRole admin
signUp(b, userRole) ==
    /\ browser[b].pc = "idle"
    /\ signUps < MaxSignUps
    /\ signUps' = signUps + 1
    /\ browser' = [browser EXCEPT
          ![b].pc = IF userRole = "admin" THEN "checkAdmin" ELSE "authSignUp",
          ![b].userRole = userRole,
          ![b].uid = NoUser,
          ![b].result = "pending",
          ![b].adminExisted = Admins # {}]
    /\ UNCHANGED <<accounts, user_roles, emailConfirm, authCalls, notAuth>>

\* the select of the pre-check returns; its error is not read (data is null)
CheckAdminReturns(b, selectErr) ==
    /\ browser[b].pc = "checkAdmin"
    /\ LET existingAdmin ==
               IF selectErr THEN {}
               ELSE {r \in VisibleRoles(browser[b].session) : r.role = "admin"}
       IN  browser' = IF existingAdmin # {}
                      THEN [browser EXCEPT ![b].pc = "idle",
                                           ![b].result = "admin_exists"]
                      ELSE [browser EXCEPT ![b].pc = "authSignUp"]
    /\ UNCHANGED <<accounts, user_roles, emailConfirm, signUps, authCalls, notAuth>>

\* supabase.auth.signUp returns: an error, or the new user, with a session
\* unless the project asks for e-mail confirmation
AuthSignUpReturns(b, authErr) ==
    /\ browser[b].pc = "authSignUp"
    /\ IF authErr
       THEN /\ browser' = [browser EXCEPT ![b].pc = "idle", ![b].result = "auth_error"]
            /\ UNCHANGED accounts
       ELSE LET uid == Cardinality(accounts) + 1
            IN  /\ accounts' = accounts \cup {uid}
                /\ browser' = [browser EXCEPT
                      ![b] = IF emailConfirm
                             THEN [@ EXCEPT !.pc = "insertRole", !.uid = uid]
                             ELSE onAuthStateChange(
                                      [@ EXCEPT !.pc = "insertRole", !.uid = uid,
                                                !.session = uid], uid)]
    /\ UNCHANGED <<user_roles, emailConfirm, signUps, authCalls, notAuth>>

\* the insert into user_roles returns; storeOk = FALSE is a failed write
RoleInsertReturns(b, storeOk) ==
    /\ browser[b].pc = "insertRole"
    /\ LET row == [user_id |-> browser[b].uid, role |-> browser[b].userRole]
           ok == storeOk /\ RoleInsertAllowed(browser[b].session, row)
       IN  IF ok
           THEN /\ user_roles' = user_roles \cup {row}
                /\ browser' = [browser EXCEPT ![b].pc = "idle", ![b].result = "ok",
                                              ![b].role = browser[b].userRole]
           ELSE /\ browser' = [browser EXCEPT ![b].pc = "idle",
                                              ![b].result = "role_error"]
                /\ UNCHANGED user_roles
    /\ UNCHANGED <<accounts, emailConfirm, signUps, authCalls, notAuth>>

AuthNext ==
    \/ \E b \in Browsers, userRole \in {"admin", "student"} : signUp(b, userRole)
    \/ \E b \in Browsers, selectErr \in BOOLEAN : CheckAdminReturns(b, selectErr)
    \/ \E b \in Browsers, authErr \in BOOLEAN : AuthSignUpReturns(b, authErr)
    \/ \E b \in Browsers, storeOk \in BOOLEAN : RoleInsertReturns(b, storeOk)

AuthSpec == AuthInit /\ [][AuthNext]_vars

\* ---- session and role resolver (AuthProvider) ---------------------------
\* the account of the admin, next to the student's
AdminAccount == StudentId + 1

\* a student and an admin have signed up; the first browser opens the
\* application, with or without the admin's persisted session
ProviderInit ==
    /\ accounts = {StudentId, AdminAccount}
    /\ user_roles = {[user_id |-> StudentId, role |-> "student"],
                     [user_id |-> AdminAccount, role |-> "admin"]}
    /\ \E sess \in {NoUser, AdminAccount} :
          browser = [b \in Browsers |->
                        IF b = 1 THEN [IdleBrowser EXCEPT !.session = sess]
                        ELSE ClosedBrowser]
    /\ signUps = MaxSignUps - 1
    /\ authCalls = 0
    /\ emailConfirm \in BOOLEAN
    /\ TakeOff
    /\ EditorOff
    /\ PolicyOff
    /\ ListOff

Open == {b \in Browsers : browser[b].open}

\* the INITIAL_SESSION event the subscription emits after registration
InitialSession(b) ==
    /\ browser[b].initialEvent
    /\ browser' = [browser EXCEPT
          ![b] = onAuthStateChange([@ EXCEPT !.initialEvent = FALSE],
                                   browser[b].session)]
    /\ UNCHANGED <<accounts, user_roles, emailConfirm, signUps, authCalls, notAuth>>

\* supabase.auth.getSession().then(...) up to its await of fetchUserRole
GetSessionResolves(b) ==
    /\ browser[b].getSession
    /\ LET sess == browser[b].session
       IN  browser' = [browser EXCEPT
             ![b] = IF sess # NoUser
                    THEN [@ EXCEPT !.getSession = FALSE, !.user = sess,
                            !.fetches = @ \cup {RoleFetch(sess, "getSession")}]
                    ELSE [@ EXCEPT !.getSession = FALSE, !.user = NoUser,
                            !.loading = FALSE]]
    /\ UNCHANGED <<accounts, user_roles, emailConfirm, signUps, authCalls, notAuth>>

\* what fetchUserRole returns: the role of the single row the select finds
\* under the policies of the client's session, null on an error
FetchedRole(sess, uid, fetchErr) ==
    LET rows == {r \in VisibleRoles(sess) : r.user_id = uid}
    IN  IF fetchErr \/ Cardinality(rows) # 1 THEN NoRole
        ELSE (CHOOSE r \in rows : TRUE).role

\* the data store answers the select of fetchUserRole
RoleFetchAnswered(b, f, fetchErr) ==
    /\ f \in browser[b].fetches
    /\ ~f.answered
    /\ browser' = [browser EXCEPT ![b].fetches = (@ \ {f}) \cup
          {[f EXCEPT !.answered = TRUE,
                     !.result = FetchedRole(browser[b].session, f.uid, fetchErr)]}]
    /\ UNCHANGED <<accounts, user_roles, emailConfirm, signUps, authCalls, notAuth>>

\* fetchUserRole returns to the delayed callback or to the getSession
\* continuation: setRole(userRole); setLoading(false)
RoleFetchReturns(b, f) ==
    /\ f \in browser[b].fetches
    /\ f.answered
    /\ browser' = [browser EXCEPT ![b].fetches = @ \ {f},
                                  ![b].role = f.result,
                                  ![b].loading = FALSE]
    /\ UNCHANGED <<accounts, user_roles, emailConfirm, signUps, authCalls, notAuth>>

\* signIn up to its await of signInWithPassword, with the credentials of uid
signIn(b, uid) ==
    /\ browser[b].pc = "idle"
    /\ authCalls < MaxAuthCalls
    /\ authCalls' = authCalls + 1
    /\ browser' = [browser EXCEPT ![b].pc = "signIn", ![b].uid = uid]
    /\ UNCHANGED <<accounts, user_roles, emailConfirm, signUps, notAuth>>

\* signInWithPassword returns; on success the client emits SIGNED_IN first
SignInReturns(b, authErr) ==
    /\ browser[b].pc = "signIn"
    /\ browser' = [browser EXCEPT
          ![b] = IF authErr THEN [@ EXCEPT !.pc = "idle", !.uid = NoUser]
                 ELSE onAuthStateChange(
                          [@ EXCEPT !.pc = "idle", !.uid = NoUser,
                                    !.session = browser[b].uid],
                          browser[b].uid)]
    /\ UNCHANGED <<accounts, user_roles, emailConfirm, signUps, authCalls, notAuth>>

\* signOut up to its await of supabase.auth.signOut
signOut(b) ==
    /\ browser[b].pc = "idle"
    /\ authCalls < MaxAuthCalls
    /\ authCalls' = authCalls + 1
    /\ browser' = [browser EXCEPT ![b].pc = "signOut"]
    /\ UNCHANGED <<accounts, user_roles, emailConfirm, signUps, notAuth>>

\* supabase.auth.signOut returns, after the SIGNED_OUT event when a session
\* was removed; then setUser(null), setSession(null), setRole(null)
SignOutReturns(b) ==
    /\ browser[b].pc = "signOut"
    /\ LET br == IF browser[b].session # NoUser
                 THEN onAuthStateChange([browser[b] EXCEPT !.session = NoUser],
                                        NoUser)
                 ELSE browser[b]
       IN  browser' = [browser EXCEPT
             ![b] = [br EXCEPT !.pc = "idle", !.user = NoUser, !.role = NoRole]]
    /\ UNCHANGED <<accounts, user_roles, emailConfirm, signUps, authCalls, notAuth>>

ProviderNext ==
    \/ \E b \in Open : InitialSession(b)
    \/ \E b \in Open : GetSessionResolves(b)
    \/ \E b \in Open, fetchErr \in BOOLEAN :
          \E f \in browser[b].fetches : RoleFetchAnswered(b, f, fetchErr)
    \/ \E b \in Open : \E f \in browser[b].fetches : RoleFetchReturns(b, f)
    \/ \E b \in Open, uid \in accounts : signIn(b, uid)
    \/ \E b \in Open, authErr \in BOOLEAN : SignInReturns(b, authErr)
    \/ \E b \in Open : signOut(b)
    \/ \E b \in Open : SignOutReturns(b)
    \/ \E b \in Open, userRole \in {"admin", "student"} : signUp(b, userRole)
    \/ \E b \in Open, selectErr \in BOOLEAN : CheckAdminReturns(b, selectErr)
    \/ \E b \in Open, authErr \in BOOLEAN : AuthSignUpReturns(b, authErr)
    \/ \E b \in Open, storeOk \in BOOLEAN : RoleInsertReturns(b, storeOk)

ProviderSpec == ProviderInit /\ [][ProviderNext]_vars

\* ---- exam editor (ExamEditor) --------------------------------------------
\* the Attempt of a student who let the countdown of the stored exam run
\* out without selecting an option
StoredAttempt(n) ==
    [user_id |-> StudentId, exam_id |-> ExamId, score |-> Score(0, n),
     total_questions |-> n, correct_answers |-> 0]

\* its Answer records, one per stored question
StoredAnswers(rid, n) ==
    {[result_id |-> rid, question_id |-> q.id, selected_option |-> NoOption,
      is_correct |-> FALSE] : q \in StoredQuestions(n)}

EditorInit ==
    /\ AuthStart
    /\ emailConfirm = FALSE
    /\ TakeIdle
    /\ PolicyOff
    /\ ListOff
    /\ \E id \in {NoId, ExamId}, n \in 1..MaxFormQuestions :
          /\ id = NoId => n = 1
          /\ store = [exams |-> {StoredExam("prelims")},
                      questions |-> StoredQuestions(n), nextId |-> n + 1]
          /\ editor = EditorMount(id)
          /\ exam_results = <<StoredAttempt(n)>>
          /\ student_answers = StoredAnswers(1, n)
    /\ writes = 0
    /\ used = [edits |-> 0, saves |-> 0]

isEditing == editor.id # NoId

\* String.prototype.trim on the strings of the model
RECURSIVE trimStart(_)
trimStart(s) == IF s # <<>> /\ Head(s) = " " THEN trimStart(Tail(s)) ELSE s
RECURSIVE trimEnd(_)
trimEnd(s) ==
    IF s # <<>> /\ s[Len(s)] = " " THEN trimEnd(SubSeq(s, 1, Len(s) - 1)) ELSE s
trimNothing(s) == s
trim(s) == trimEnd(trimStart(s))

\* description || null, and examData.description || ''
OrNull(s) == IF s = <<>> THEN Null ELSE s
OrEmpty(s) == IF s = Null THEN <<>> ELSE s

\* the form is on screen and no save is in progress; the admin types and
\* clicks between saves
EditorRendered ==
    /\ editor.route = EditorPath
    /\ ~editor.loading
    /\ editor.pc = "idle"

QuestionsOf(id) == {q \in store.questions : q.exam_id = id}

\* the rows of S in a sequence ordered by order_index
Orderings(S) ==
    {sq \in [1..Cardinality(S) -> S] :
        /\ \A i, j \in 1..Cardinality(S) : i # j => sq[i] # sq[j]
        /\ \A i, j \in 1..Cardinality(S) :
               i < j => sq[i].order_index <= sq[j].order_index}

\* the form's question of a stored row (the row's other columns are not
\* read again)
FormQuestion(q) ==
    [question_text |-> q.question_text, option_a |-> q.option_a,
     option_b |-> q.option_b, option_c |-> q.option_c, option_d |-> q.option_d,
     correct_option |-> q.correct_option, order_index |-> q.order_index]

\* fetchExam of the editor, run once on mount in edit mode
EditorFetchExam(fetchOk) ==
    /\ editor.pc = "fetchExam"
    /\ IF fetchOk /\ \E e \in store.exams : e.id = editor.id
       THEN \E sq \in Orderings(QuestionsOf(editor.id)) :
              LET examData == CHOOSE e \in store.exams : e.id = editor.id
              IN  editor' = [editor EXCEPT
                    !.exam = [title |-> examData.title,
                              description |-> OrEmpty(examData.description),
                              category |-> examData.category,
                              duration_minutes |-> examData.duration_minutes,
                              is_active |-> examData.is_active],
                    !.questions = [i \in 1..Len(sq) |-> FormQuestion(sq[i])],
                    !.loading = FALSE,
                    !.pc = "idle"]
       ELSE editor' = Unmounted(Toast("Failed to load exam", 0))
    /\ UNCHANGED <<store, writes, used, notEditor>>

\* onChange of the title and description inputs
setExamText(field, value) ==
    /\ EditorRendered
    /\ used.edits < MaxEdits
    /\ used' = [used EXCEPT !.edits = @ + 1]
    /\ editor' = [editor EXCEPT !.exam[field] = value]
    /\ UNCHANGED <<store, writes, notEditor>>

\* onCheckedChange of the is_active switch
setIsActive(checked) ==
    /\ EditorRendered
    /\ used.edits < MaxEdits
    /\ used' = [used EXCEPT !.edits = @ + 1]
    /\ editor' = [editor EXCEPT !.exam.is_active = checked]
    /\ UNCHANGED <<store, writes, notEditor>>

handleCategoryChange(category) ==
    /\ EditorRendered
    /\ used.edits < MaxEdits
    /\ used' = [used EXCEPT !.edits = @ + 1]
    /\ editor' = [editor EXCEPT
          !.exam.category = category,
          !.exam.duration_minutes = DURATION_BY_CATEGORY[category]]
    /\ UNCHANGED <<store, writes, notEditor>>

\* no field of the question is empty
Filled(q) == \A f \in TextFields : q[f] # <<>>

\* the admin adds a question when the ones before it are filled in
addQuestion ==
    /\ EditorRendered
    /\ Len(editor.questions) < MaxFormQuestions
    /\ \A i \in 1..Len(editor.questions) : Filled(editor.questions[i])
    /\ editor' = [editor EXCEPT
          !.questions = Append(@, BlankQuestion(Len(editor.questions)))]
    /\ UNCHANGED <<store, writes, used, notEditor>>

\* the text fields of a question from top to bottom
FieldOrder == <<"question_text", "option_a", "option_b", "option_c", "option_d">>

\* the admin fills in the next empty field of a question
Fills(q, field, value) ==
    /\ field \in TextFields
    /\ value = <<"Q">>
    /\ \E k \in 1..Len(FieldOrder) :
          /\ FieldOrder[k] = field
          /\ q[field] = <<>>
          /\ \A j \in 1..(k - 1) : q[FieldOrder[j]] # <<>>

\* index is 0-based, as in the code
updateQuestion(index, field, value) ==
    /\ EditorRendered
    /\ IF Fills(editor.questions[index + 1], field, value)
       THEN UNCHANGED used
       ELSE /\ used.edits < MaxEdits
            /\ used' = [used EXCEPT !.edits = @ + 1]
    /\ editor' = [editor EXCEPT !.questions[index + 1][field] = value]
    /\ UNCHANGED <<store, writes, notEditor>>

\* questions.filter((_, i) => i !== index)
Without(sq, index) ==
    [i \in 1..(Len(sq) - 1) |-> IF i < index + 1 THEN sq[i] ELSE sq[i + 1]]

removeQuestion(index) ==
    /\ EditorRendered
    /\ editor' = [editor EXCEPT !.questions = Without(@, index)]
    /\ UNCHANGED <<store, writes, used, notEditor>>

\* the two buttons that navigate back to the exam list
leaveEditor ==
    /\ EditorRendered
    /\ editor' = Unmounted(editor.toast)
    /\ UNCHANGED <<store, writes, used, notEditor>>

\* a question with a text field that is empty after trim
QuestionIncomplete(q) == \E f \in TextFields : trim(q[f]) = <<>>

\* the validation of handleSave: the toast of the first check that fails
SaveError(form, qs) ==
    IF trim(form.title) = <<>>
    THEN Toast("Please enter an exam title", 0)
    ELSE IF Len(qs) = 0
    THEN Toast("Please add at least one question", 0)
    ELSE IF \E i \in 1..Len(qs) : QuestionIncomplete(qs[i])
    THEN LET i == CHOOSE i \in 1..Len(qs) :
                      /\ QuestionIncomplete(qs[i])
                      /\ \A j \in 1..(i - 1) : ~QuestionIncomplete(qs[j])
         IN  Toast("Please fill in all fields for question", i)
    ELSE NoToast

\* handleSave up to its first await: the validation, setSaving(true) and the
\* request that writes the exams row
handleSave ==
    /\ EditorRendered
    /\ ~editor.saving
    /\ used.saves < MaxSaves
    /\ used' = [used EXCEPT !.saves = @ + 1]
    /\ LET err == SaveError(editor.exam, editor.questions)
       IN  IF err # NoToast
           THEN /\ editor' = [editor EXCEPT !.toast = err]
                /\ UNCHANGED writes
           ELSE /\ editor' = [editor EXCEPT !.saving = TRUE,
                                            !.pc = "examWrite",
                                            !.examId = editor.id]
                /\ writes' = writes + 1
    /\ UNCHANGED <<store, notEditor>>

\* catch and finally of handleSave
SaveFailed ==
    [editor EXCEPT !.toast = Toast("Failed to save exam", 0),
                   !.saving = FALSE, !.pc = "idle"]

\* the exams row the form writes
ExamRow(id) ==
    [id |-> id, title |-> editor.exam.title,
     description |-> OrNull(editor.exam.description),
     category |-> editor.exam.category,
     duration_minutes |-> editor.exam.duration_minutes,
     is_active |-> editor.exam.is_active]

\* the update (edit mode) or insert (create mode) of the exams row returns
ExamWriteReturns(storeOk) ==
    /\ editor.pc = "examWrite"
    /\ IF ~storeOk
       THEN /\ editor' = SaveFailed
            /\ UNCHANGED <<store, writes>>
       ELSE IF isEditing
       THEN /\ store' = [store EXCEPT !.exams =
                  {IF e.id = editor.id THEN ExamRow(e.id) ELSE e : e \in store.exams}]
            /\ editor' = [editor EXCEPT !.pc = "deleteQuestions"]
            /\ writes' = writes + 1
       ELSE LET newId == Cardinality(store.exams) + 1
            IN  /\ store' = [store EXCEPT !.exams = @ \cup {ExamRow(newId)}]
                /\ editor' = [editor EXCEPT !.pc = "insertQuestions",
                                             !.examId = newId]
                /\ writes' = writes + 1
    /\ UNCHANGED <<used, notEditor>>

\* the delete of the exam's questions returns; its result is not read
\* question_id REFERENCES questions(id) ON DELETE CASCADE
Cascade(deleted) ==
    {r \in student_answers : \A q \in deleted : r.question_id # q.id}

DeleteQuestionsReturns(storeOk) ==
    /\ editor.pc = "deleteQuestions"
    /\ IF storeOk
       THEN /\ store' = [store EXCEPT !.questions = @ \ QuestionsOf(editor.examId)]
            /\ student_answers' = Cascade(QuestionsOf(editor.examId))
       ELSE UNCHANGED <<store, student_answers>>
    /\ editor' = [editor EXCEPT !.pc = "insertQuestions"]
    /\ writes' = writes + 1
    /\ UNCHANGED <<used, takeButAnswers, authVars, policyVars, manage>>

\* questions.map((q, index) => ({...})), with the ids the store gives
questionsToInsert(examId, qs, firstId) ==
    {[id |-> firstId + index, exam_id |-> examId,
      question_text |-> qs[index + 1].question_text,
      option_a |-> qs[index + 1].option_a, option_b |-> qs[index + 1].option_b,
      option_c |-> qs[index + 1].option_c, option_d |-> qs[index + 1].option_d,
      correct_option |-> qs[index + 1].correct_option,
      order_index |-> index]
     : index \in 0..(Len(qs) - 1)}

\* the insert of the questions returns
QuestionsInsertReturns(storeOk) ==
    /\ editor.pc = "insertQuestions"
    /\ IF storeOk
       THEN /\ store' = [store EXCEPT
                  !.questions = @ \cup questionsToInsert(editor.examId,
                                           editor.questions, store.nextId),
                  !.nextId = @ + Len(editor.questions)]
            /\ editor' = Unmounted(Toast(IF isEditing
                                          THEN "Exam updated successfully"
                                          ELSE "Exam created successfully", 0))
       ELSE /\ editor' = SaveFailed
            /\ UNCHANGED store
    /\ UNCHANGED <<writes, used, notEditor>>

EditorNext ==
    \/ \E fetchOk \in BOOLEAN : EditorFetchExam(fetchOk)
    \/ \E field \in {"title", "description"}, value \in TextValues :
          setExamText(field, value)
    \/ \E checked \in BOOLEAN : setIsActive(checked)
    \/ \E category \in ExamCategory : handleCategoryChange(category)
    \/ addQuestion
    \/ \E index \in 0..(Len(editor.questions) - 1), field \in TextFields,
          value \in TextValues : updateQuestion(index, field, value)
    \/ \E index \in 0..(Len(editor.questions) - 1), value \in Clickable :
          updateQuestion(index, "correct_option", value)
    \/ \E index \in 0..(Len(editor.questions) - 1) : removeQuestion(index)
    \/ leaveEditor
    \/ handleSave
    \/ \E storeOk \in BOOLEAN : ExamWriteReturns(storeOk)
    \/ \E storeOk \in BOOLEAN : DeleteQuestionsReturns(storeOk)
    \/ \E storeOk \in BOOLEAN : QuestionsInsertReturns(storeOk)

EditorSpec == EditorInit /\ [][EditorNext]_vars

\* ---- row-level policies of exam_results and student_answers -------------
Accounts == 1..MaxAccounts
AdminId == MaxAccounts
\* auth.uid() of a request: an account, or null for the anon key alone
Callers == Accounts \cup {NoUser}

PolicyInit ==
    /\ accounts = Accounts
    /\ user_roles = {[user_id |-> u,
                      role |-> IF u = AdminId THEN "admin" ELSE "student"]
                     : u \in Accounts}
    /\ browser = [b \in Browsers |-> IdleBrowser]
    /\ signUps = 0
    /\ authCalls = 0
    /\ emailConfirm = FALSE
    /\ TakeOff
    /\ EditorOff
    /\ PolicyOff
    /\ ListOff

\* the exam_results row with id rid
ResultById(rid) == exam_results[rid]

\* "Users can view their own results" and "Admins can view all results";
\* auth.uid() = user_id is not true when auth.uid() is null
ResultVisible(uid, row) ==
    \/ uid # NoUser /\ uid = row.user_id
    \/ has_role(uid, "admin")

\* "Users can insert their own results"
ResultInsertAllowed(uid, row) == uid # NoUser /\ uid = row.user_id

\* the EXISTS of the two student_answers policies; the subquery reads
\* exam_results under the caller's own policies
OwnsResultAnyCaller(uid, rid) == rid \in 1..Len(exam_results)
OwnsResult(uid, rid) ==
    /\ rid \in 1..Len(exam_results)
    /\ ResultVisible(uid, ResultById(rid))
    /\ uid # NoUser
    /\ ResultById(rid).user_id = uid

\* "Users can view their own answers"
AnswerVisible(uid, r) == OwnsResult(uid, r.result_id)

\* "Users can insert their own answers"
AnswerInsertAllowed(uid, r) == OwnsResult(uid, r.result_id)

\* select * from exam_results, by caller uid
SelectResults(uid) ==
    /\ lastRead' = [caller |-> uid, table |-> "exam_results",
                    rows |-> {[id |-> rid, user_id |-> ResultById(rid).user_id]
                              : rid \in {i \in 1..Len(exam_results) :
                                          ResultVisible(uid, ResultById(i))}}]
    /\ UNCHANGED <<exam_results, student_answers, createdBy, notPolicy>>

\* select * from student_answers, by caller uid
SelectAnswers(uid) ==
    /\ lastRead' = [caller |-> uid, table |-> "student_answers",
                    rows |-> {[id |-> r.result_id,
                               user_id |-> ResultById(r.result_id).user_id]
                              : r \in {a \in student_answers :
                                          AnswerVisible(uid, a)}}]
    /\ UNCHANGED <<exam_results, student_answers, createdBy, notPolicy>>

\* insert into exam_results a row with user_id owner, by caller uid
InsertResult(uid, owner) ==
    /\ Len(exam_results) < MaxAttempts
    /\ LET row == [user_id |-> owner, exam_id |-> ExamId, score |-> 0,
                   total_questions |-> 1, correct_answers |-> 0]
       IN  IF ResultInsertAllowed(uid, row)
           THEN /\ exam_results' = Append(exam_results, row)
                /\ createdBy' = [createdBy EXCEPT !.results = Append(@, uid)]
           ELSE UNCHANGED <<exam_results, createdBy>>
    /\ UNCHANGED <<student_answers, lastRead, notPolicy>>

\* insert into student_answers a row of result rid, by caller uid
InsertAnswer(uid, rid) ==
    /\ LET row == [result_id |-> rid, question_id |-> 1,
                   selected_option |-> NoOption, is_correct |-> FALSE]
       IN  IF AnswerInsertAllowed(uid, row)
           THEN /\ student_answers' = student_answers \cup {row}
                /\ createdBy' = [createdBy EXCEPT
                      !.answers = @ \cup {[result_id |-> rid, by |-> uid]}]
           ELSE UNCHANGED <<student_answers, createdBy>>
    /\ UNCHANGED <<exam_results, lastRead, notPolicy>>

PolicyNext ==
    \/ \E uid \in Callers : SelectResults(uid)
    \/ \E uid \in Callers : SelectAnswers(uid)
    \/ \E uid \in Callers, owner \in Accounts : InsertResult(uid, owner)
    \/ \E uid \in Callers, rid \in 1..MaxAttempts : InsertAnswer(uid, rid)

PolicySpec == PolicyInit /\ [][PolicyNext]_vars

\* ---- admin exam list (ManageExams) ---------------------------------------
\* the exams row with id i, and what the list shows of a row
ListExam(i) == [StoredExam("prelims") EXCEPT !.id = i]
Shown(e) == [id |-> e.id, is_active |-> e.is_active]

ListInit ==
    /\ AuthStart
    /\ emailConfirm = FALSE
    /\ TakeOff
    /\ PolicyOff
    /\ store = [exams |-> {ListExam(i) : i \in 1..MaxListExams},
                questions |-> StoredQuestions(1), nextId |-> 2]
    /\ editor = Unmounted(NoToast)
    /\ writes = 0
    /\ used = [edits |-> 0, saves |-> 0]
    /\ manage = ListMount

\* fetchExams, run once on mount
ListFetchExams(fetchOk) ==
    /\ manage.open
    /\ manage.loading
    /\ manage' = IF fetchOk
                 THEN [manage EXCEPT !.exams = {Shown(e) : e \in store.exams},
                                     !.loading = FALSE, !.loaded = TRUE]
                 ELSE [manage EXCEPT !.loading = FALSE]
    /\ UNCHANGED <<store, notList>>

\* a call in flight: exams is the exams state of the render whose handler
\* was called
ListCall(kind, examId, currentStatus) ==
    [kind |-> kind, examId |-> examId, currentStatus |-> currentStatus,
     exams |-> manage.exams]

\* handleDelete up to its await
handleDelete(examId) ==
    /\ manage.open
    /\ ~manage.loading
    /\ manage.started < MaxListCalls
    /\ \E e \in manage.exams : e.id = examId
    /\ manage.deleting # examId
    /\ manage' = [manage EXCEPT
          !.deleting = examId,
          !.started = @ + 1,
          !.calls = @ \cup {ListCall("delete", examId, FALSE)}]
    /\ UNCHANGED <<store, notList>>

\* the delete returns; exams(id) ON DELETE CASCADE removes the questions
DeleteReturns(c, storeOk) ==
    /\ c \in manage.calls
    /\ c.kind = "delete"
    /\ IF storeOk
       THEN /\ store' = [store EXCEPT
                  !.exams = {e \in @ : e.id # c.examId},
                  !.questions = {q \in @ : q.exam_id # c.examId}]
            /\ manage' = [manage EXCEPT
                  !.exams = {e \in c.exams : e.id # c.examId},
                  !.deleting = NoId,
                  !.calls = @ \ {c}]
       ELSE /\ manage' = [manage EXCEPT !.deleting = NoId, !.failed = TRUE,
                                        !.calls = @ \ {c}]
            /\ UNCHANGED store
    /\ UNCHANGED notList

\* toggleActive up to its await, called from the row the list shows
toggleActive(examId, currentStatus) ==
    /\ manage.open
    /\ ~manage.loading
    /\ manage.started < MaxListCalls
    /\ [id |-> examId, is_active |-> currentStatus] \in manage.exams
    /\ manage' = [manage EXCEPT
          !.started = @ + 1,
          !.calls = @ \cup {ListCall("toggle", examId, currentStatus)}]
    /\ UNCHANGED <<store, notList>>

\* the update of is_active returns
ToggleReturns(c, storeOk) ==
    /\ c \in manage.calls
    /\ c.kind = "toggle"
    /\ IF storeOk
       THEN /\ store' = [store EXCEPT !.exams =
                  {IF e.id = c.examId
                   THEN [e EXCEPT !.is_active = ~c.currentStatus] ELSE e : e \in @}]
            /\ manage' = [manage EXCEPT
                  !.exams = {IF e.id = c.examId
                             THEN [e EXCEPT !.is_active = ~c.currentStatus]
                             ELSE e : e \in c.exams},
                  !.calls = @ \ {c}]
       ELSE /\ manage' = [manage EXCEPT !.failed = TRUE, !.calls = @ \ {c}]
            /\ UNCHANGED store
    /\ UNCHANGED notList

ListNext ==
    \/ \E fetchOk \in BOOLEAN : ListFetchExams(fetchOk)
    \/ \E examId \in 1..MaxListExams : handleDelete(examId)
    \/ \E c \in manage.calls, storeOk \in BOOLEAN : DeleteReturns(c, storeOk)
    \/ \E examId \in 1..MaxListExams, currentStatus \in BOOLEAN :
          toggleActive(examId, currentStatus)
    \/ \E c \in manage.calls, storeOk \in BOOLEAN : ToggleReturns(c, storeOk)

ListSpec == ListInit /\ [][ListNext]_vars

\* ---- helpers of the properties ------------------------------------------
Calls == 1..Len(calls)
AnswersOf(rid) == {r \in student_answers : r.result_id = rid}
CorrectAnswersOf(rid) == {r \in AnswersOf(rid) : r.is_correct}
\* the countdown of this session ran down from a positive duration to 0
ReachedZero == ~loading /\ exam.exists /\ exam.duration_minutes > 0 /\ timeLeft = 0
\* every variable of the engine but the one named last
EngineBut(v) ==
    <<exam, questions, timeLeft, loading, submitting, showSubmitDialog, route,
      timer, calls, autoSubmits, dbExam, dbQuestions, exam_results,
      student_answers, user, v>>

\* ---- C1 -----------------------------------------------------------------
\* C1: in one exam-taking session, under every interleaving of the countdown
\* reaching zero and the user confirming a manual submission, at most one
\* Attempt row is inserted into exam_results.
C1_AtMostOneAttempt == Len(exam_results) <= 1

\* ---- C2 -----------------------------------------------------------------
\* C2: a submitExam call made while an earlier call of the session is still
\* in flight (submitting is true) is a no-op: it gets past no guard, issues no
\* write and creates no second Attempt.
C2_ReentryIsNoOp == \A i \in Calls : ~calls[i].reentered

\* ---- C3 -----------------------------------------------------------------
\* C3: handleAutoSubmit is triggered at most once in a session, not before
\* the countdown reaches 0, and exactly once when it has reached 0, however
\* often the component re-rendered in between.
C3_AutoSubmitOnce ==
    /\ autoSubmits <= 1
    /\ (timeLeft > 0 => autoSubmits = 0)
    /\ (ReachedZero => autoSubmits = 1)

\* the countdown has reached 0 and the view has re-rendered since (two
\* selections and a navigation, the last of them after the expiry)
C3_Witness ==
    /\ ReachedZero
    /\ autoSubmits = 1
    /\ selects = MaxSelects
    /\ lastOp.op = "goToQuestion"

\* ---- C4 -----------------------------------------------------------------
\* C4: whenever submitExam reports success for an exam with N questions, the
\* Attempt it created has exactly N Answer records, one per question.
C4_SuccessHasAllAnswers ==
    \A i \in Calls :
        calls[i].report = "success" =>
            /\ Cardinality(AnswersOf(calls[i].result_id)) = Len(questions)
            /\ \A k \in 1..Len(questions) :
                  \E r \in AnswersOf(calls[i].result_id) : r.question_id = questions[k].id

\* ---- C5 -----------------------------------------------------------------
\* C5: for every submitted Attempt of an exam with N >= 1 questions,
\* correct_answers is the number of its Answer records with is_correct = true,
\* total_questions is N, and score is round(100 * correct_answers / N), within
\* 0..100.
C5_AggregatesMatchAnswers ==
    \A i \in Calls :
        (calls[i].report = "success" /\ Len(questions) >= 1) =>
            LET row == exam_results[calls[i].result_id]
            IN  /\ row.correct_answers = Cardinality(CorrectAnswersOf(calls[i].result_id))
                /\ row.total_questions = Len(questions)
                /\ 2 * row.total_questions * row.score
                      <= 200 * row.correct_answers + row.total_questions
                /\ 200 * row.correct_answers + row.total_questions
                      < 2 * row.total_questions * (row.score + 1)
                /\ row.score \in 0..100

\* ---- C6 -----------------------------------------------------------------
\* C6: a submitExam call whose Attempt insert failed never issues the
\* Answer-record insert, and no exam_results or student_answers row of that
\* call exists: every row comes from a call whose Attempt insert succeeded.
C6_FailedAttemptWritesNothing ==
    /\ \A i \in Calls :
          calls[i].result_id = NoId => calls[i].pc \in {"insertResult", "done"}
    /\ \A i \in Calls : calls[i].report = "failed" => calls[i].result_id = NoId
    /\ Len(exam_results) = Cardinality({i \in Calls : calls[i].result_id # NoId})
    /\ \A r \in student_answers : r.result_id \in 1..Len(exam_results)

\* an Attempt insert has failed and, later, another call has written both
\* its Attempt and its Answer records
C6_Witness ==
    \E i, j \in Calls :
        /\ calls[i].report = "failed"
        /\ calls[j].report = "success"
        /\ AnswersOf(calls[j].result_id) # {}

\* ---- C7 -----------------------------------------------------------------
\* C7: the step in which a write of submitExam fails (the Attempt insert or
\* the Answer-record insert) reports the submission as failed, keeps the
\* questions, the answers and currentIndex, hands off to no results view,
\* and releases the submitting flag.
C7_WriteFailureIsReported ==
    [][\A i \in Calls :
          (/\ calls[i].pc # "done"
           /\ calls'[i].pc = "done"
           /\ (calls'[i].answersError \/ calls'[i].result_id = NoId))
          => /\ calls'[i].report = "failed"
             /\ route' = route
             /\ UNCHANGED <<questions, answers, currentIndex>>
             /\ (mounted => ~submitting')]_vars

\* ---- C8 -----------------------------------------------------------------
\* C8: goToQuestion(index) with index outside 0..questions.length - 1 leaves
\* currentIndex and every other engine variable unchanged; with index inside
\* that range it sets currentIndex to index and changes nothing else.
C8_GoToQuestionFrame ==
    [][lastOp'.op = "goToQuestion" =>
          /\ currentIndex' = IF lastOp'.a \in 0..(Len(questions) - 1)
                             THEN lastOp'.a ELSE currentIndex
          /\ UNCHANGED EngineBut(answers)]_vars

\* goToQuestion has just been called with the first index past the end
C8_Witness ==
    /\ lastOp.op = "goToQuestion"
    /\ lastOp.a = Len(questions)
    /\ Len(questions) = MaxQuestions
    /\ currentIndex = 0

\* ---- C9 -----------------------------------------------------------------
\* C9: selectAnswer(questionId, option) sets the recorded answer of that
\* question to option and leaves the answers of all other questions,
\* currentIndex, the remaining time and the rest of the engine unchanged.
C9_SelectAnswerFrame ==
    [][lastOp'.op = "selectAnswer" =>
          /\ answers'[lastOp'.a] = lastOp'.b
          /\ \A q \in DOMAIN answers : q # lastOp'.a => answers'[q] = answers[q]
          /\ DOMAIN answers' = DOMAIN answers
          /\ UNCHANGED EngineBut(currentIndex)]_vars

\* question 2 was answered and then question 1: both answers are recorded
C9_Witness ==
    /\ lastOp = Op("selectAnswer", 1, "B")
    /\ answers[1] = "B"
    /\ answers[2] = "A"

\* ---- C10 ----------------------------------------------------------------
\* C10: for an active exam whose question list is empty the countdown is
\* never started, no automatic submission fires and no Attempt row is written.
C10_EmptyExamNeverStarts ==
    (~loading /\ exam.exists /\ Len(questions) = 0) =>
        /\ ~timer.active
        /\ autoSubmits = 0
        /\ Len(exam_results) = 0

\* ---- C11 ----------------------------------------------------------------
\* C11: if the requested exam does not exist or is inactive, the engine never
\* enters a session: exam stays unset, the countdown never starts, no
\* submitExam call gets past its guard, no Attempt is created, and once the
\* fetch has returned the router is on the student dashboard.
C11_NoSessionWithoutActiveExam ==
    (~dbExam.exists \/ ~dbExam.is_active) =>
        /\ exam = NoExam
        /\ questions = <<>>
        /\ timeLeft = 0
        /\ ~timer.active
        /\ autoSubmits = 0
        /\ calls = <<>>
        /\ exam_results = <<>>
        /\ (~loading => route = StudentPath)

\* the fetch of an existing but inactive exam has returned
C11_Witness ==
    /\ dbExam.exists
    /\ ~dbExam.is_active
    /\ ~loading
    /\ lastOp = Op("fetchExam", 0, "")
    /\ route = StudentPath

\* ---- C12 ----------------------------------------------------------------
\* C12: the step in which fetchExam succeeds for an exam with
\* duration_minutes = d leaves the engine with timeLeft = d * 60,
\* currentIndex = 0 and no recorded answer.
C12_InitialSessionState ==
    [][(lastOp'.op = "fetchExam" /\ lastOp'.a = 1) =>
          /\ exam' = dbExam
          /\ timeLeft' = 60 * dbExam.duration_minutes
          /\ currentIndex' = 0
          /\ \A q \in DOMAIN answers' : answers'[q] = NoOption]_vars

\* a session of a one-minute exam has just been initialized
C12_Witness ==
    /\ lastOp = Op("fetchExam", 1, "")
    /\ exam.duration_minutes = 1
    /\ timeLeft = 60
    /\ Len(questions) = MaxQuestions

\* ---- C13 ----------------------------------------------------------------
\* C13: once a manual submission has started, the remaining time is not
\* decremented again and no automatic submission fires.
C13_ManualSubmitStopsCountdown ==
    [][Manual(calls) # {} =>
          /\ timeLeft' = timeLeft
          /\ autoSubmits' = autoSubmits]_vars

\* ---- C14 ----------------------------------------------------------------
\* C14: the step in which a submission succeeds hands off to the results view
\* of the Attempt it created, and after a hand-off the session performs no
\* tick, no answer selection and no data-store write.
C14_HandOffIsTerminal ==
    [][/\ \A i \in Calls :
             (calls[i].report # "success" /\ calls'[i].report = "success")
                => route' = ResultPath(calls[i].result_id)
       /\ route.path = "/student/result"
             => UNCHANGED <<timeLeft, answers, exam_results, student_answers>>]_vars

\* ---- C15 ----------------------------------------------------------------
\* C15: every Answer record written for a question q holds the option
\* selected for q when the submission was made ("none" for null if q was
\* never answered), and is_correct is true exactly when that option is
\* q.correct_option, so never for an unanswered question.
C15_AnswerRecordsMatchSelection ==
    [][\A i \in Calls :
          calls[i].pc = "insertAnswers" =>
              \A r \in student_answers' \ student_answers :
                  \A k \in 1..Len(questions) :
                      (r.result_id = calls[i].result_id
                       /\ r.question_id = questions[k].id) =>
                          /\ r.selected_option = calls[i].selected[questions[k].id]
                          /\ r.is_correct =
                               (calls[i].selected[questions[k].id]
                                   = questions[k].correct_option)
                          /\ (r.selected_option = NoOption => ~r.is_correct)]_vars

\* ---- C16 ----------------------------------------------------------------
\* C16: in a session with its exam view rendered, where the student never
\* submits manually and the writes succeed, the countdown reaches zero and an
\* Attempt with one Answer record per question is eventually persisted; if no
\* answer was ever selected it has correct_answers = 0, score = 0 and every
\* selected_option null.
Persisted(i) ==
    /\ calls[i].report = "success"
    /\ timeLeft = 0
    /\ Cardinality(AnswersOf(calls[i].result_id)) = Len(questions)

C16_TimeoutPersistsAttempt ==
    /\ rendered ~> (\E i \in Calls : Persisted(i))
    /\ [](\A i \in Calls :
            (Persisted(i) /\ selects = 0) =>
                /\ exam_results[calls[i].result_id].correct_answers = 0
                /\ exam_results[calls[i].result_id].score = 0
                /\ \A r \in AnswersOf(calls[i].result_id) : r.selected_option = NoOption)

\* the countdown ran out with nothing selected and the Attempt is persisted
C16_Witness ==
    \E i \in Calls :
        /\ Persisted(i)
        /\ calls[i].src = "auto"
        /\ selects = 0
        /\ Len(questions) = MaxQuestions
        /\ exam_results[calls[i].result_id].score = 0

\* ---- C17 ----------------------------------------------------------------
\* C17: in every reachable state, after any sequence and interleaving of
\* signUp calls, at most one account holds the admin role in user_roles.
C17_AtMostOneAdmin == Cardinality(Admins) <= 1

\* ---- C18 ----------------------------------------------------------------
\* C18: a signUp call with role admin made while an admin role row exists
\* gets the 'admin already exists' error from its pre-check and creates
\* neither an account nor a role row.
C18_SecondAdminRejected ==
    \A b \in Browsers :
        (/\ browser[b].userRole = "admin"
         /\ browser[b].adminExisted
         /\ ~has_role(browser[b].session, "admin")
         /\ browser[b].pc # "checkAdmin")
        => /\ browser[b].result = "admin_exists"
           /\ browser[b].uid = NoUser

\* ---- C19 ----------------------------------------------------------------
\* C19: whenever no signUp call is in progress, every account of the identity
\* provider has exactly one role row.
C19_EveryAccountHasOneRole ==
    (\A b \in Browsers : browser[b].pc = "idle") =>
        \A u \in accounts : Cardinality({r \in user_roles : r.user_id = u}) = 1

\* ---- C20 ----------------------------------------------------------------
\* a string of no characters or of spaces only
IsBlank(s) == \A i \in 1..Len(s) : s[i] = " "

\* the form handleSave must refuse: a blank title, no question, or a question
\* with a blank text or option
FormRefused(form, qs) ==
    \/ IsBlank(form.title)
    \/ Len(qs) = 0
    \/ \E i \in 1..Len(qs) : \E f \in TextFields : IsBlank(qs[i][f])

\* C20: a handleSave call on a form with a blank title, with zero questions
\* or with a question that has a blank text or option issues no data-store
\* write, starts no save and leaves the stored exams and questions unchanged.
C20_InvalidFormWritesNothing ==
    [][(/\ used'.saves = used.saves + 1
        /\ FormRefused(editor.exam, editor.questions))
       => /\ writes' = writes
          /\ store' = store
          /\ editor'.pc = "idle"
          /\ ~editor'.saving]_vars

\* a handleSave call in edit mode was refused because of a field of spaces
\* only, and the store still holds the exam as it was loaded
C20_Witness ==
    /\ used.saves > 0
    /\ editor.id = ExamId
    /\ editor.pc = "idle"
    /\ editor.toast.msg = "Please fill in all fields for question"
    /\ \E i \in 1..Len(editor.questions) : \E f \in TextFields :
          editor.questions[i][f] = <<" ">>
    /\ writes = 0
    /\ store.exams = {StoredExam("prelims")}
    /\ QuestionsOf(ExamId) # {}

\* ---- C21 ----------------------------------------------------------------
\* C21: an Attempt created with N Answer records keeps exactly N Answer
\* records and its aggregate fields after any operation of the admin's exam
\* editor, the exam not being deleted.
C21_AttemptKeepsAnswers ==
    /\ exam_results = <<StoredAttempt(exam_results[1].total_questions)>>
    /\ \A rid \in 1..Len(exam_results) :
          Cardinality(AnswersOf(rid)) = exam_results[rid].total_questions

\* ---- C22 ----------------------------------------------------------------
\* every exam_results row and every student_answers row was inserted by the
\* account that owns the Attempt
CreatedByOwner ==
    /\ \A rid \in 1..Len(exam_results) :
          createdBy.results[rid] = ResultById(rid).user_id
    /\ \A c \in createdBy.answers : c.by = ResultById(c.result_id).user_id

\* C22 as stated: an Attempt row and its Answer records are read only by the
\* owner of the Attempt, and created only by the owner.
C22_OwnerOnly ==
    /\ \A r \in lastRead.rows : r.user_id = lastRead.caller
    /\ CreatedByOwner

\* C22, amended: an Attempt row is read only by its owner or by an account
\* with the admin role; its Answer records are read only by its owner; both
\* are created only by the owner.
C22_OwnerOrAdminReads ==
    /\ lastRead.table = "exam_results" =>
          \A r \in lastRead.rows :
              \/ r.user_id = lastRead.caller
              \/ [user_id |-> lastRead.caller, role |-> "admin"] \in user_roles
    /\ lastRead.table = "student_answers" =>
          \A r \in lastRead.rows : r.user_id = lastRead.caller
    /\ CreatedByOwner

\* the admin has just selected the Answer records while another account's
\* Attempt has one, and got no row
C22_Witness ==
    /\ lastRead.table = "student_answers"
    /\ lastRead.caller = AdminId
    /\ lastRead.rows = {}
    /\ \E r \in student_answers : ResultById(r.result_id).user_id # AdminId

\* ---- C23 ----------------------------------------------------------------
\* the default duration the specification gives each category
CategoryDefault(category) ==
    CASE category = "basic" -> 40
      [] category = "prelims" -> 20
      [] category = "mains" -> 30

\* the create-exam form is on screen
CreateForm == editor.id = NoId /\ editor.route = EditorPath

C24_AutoSubmitScoresCurrentAnswers ==
    [][\A i \in Calls :
          (calls[i].src = "auto" /\ calls'[i].pc # calls[i].pc) =>
              /\ (calls[i].pc = "insertResult"
                  /\ Len(exam_results') = Len(exam_results) + 1) =>
                     exam_results'[Len(exam_results')].correct_answers
                         = CountCorrect(questions, calls[i].selected, 1)
              /\ calls[i].pc = "insertAnswers" =>
                     \A r \in student_answers' \ student_answers :
                         r.selected_option = calls[i].selected[r.question_id]]_vars

\* ---- C27 ----------------------------------------------------------------
\* C27: in an initialized session with duration_minutes = d the remaining
\* time stays within 0 .. d * 60; it changes only by a tick, which decreases
\* it by exactly 1; it never increases; and once it is 0 the interval
\* callback does not run again.
C27_CountdownIsMonotone ==
    /\ [](exam.exists =>
            (0 <= timeLeft /\ timeLeft <= exam.duration_minutes * 60))
    /\ [][exam.exists =>
            /\ timeLeft' <= timeLeft
            /\ timeLeft' # timeLeft =>
                  (timeLeft' = timeLeft - 1 /\ lastOp'.op = "tick")
            /\ (lastOp'.op = "tick" /\ lastOp' # lastOp) =>
                  timeLeft' = timeLeft - 1
            /\ timeLeft = 0 => autoSubmits' = autoSubmits]_vars

\* the countdown has run from d * 60 down to 0 and a handler has run since
C27_Witness ==
    /\ exam.exists
    /\ exam.duration_minutes = MaxDuration
    /\ timeLeft = 0
    /\ autoSubmits = 1
    /\ lastOp.op # "tick"

\* ---- C29 ----------------------------------------------------------------
\* the stored row q holds the form's question fq at position index
SameQuestion(q, fq, index) ==
    /\ q.order_index = index
    /\ \A f \in TextFields : q[f] = fq[f]
    /\ q.correct_option = fq.correct_option

\* C29: when a handleSave of a form holding N questions succeeds, the exam's
\* stored questions are exactly those N questions, with order_index 0..N-1
\* each used once, in the order of the form.
C29_SavedQuestionsMatchForm ==
    [][(editor.pc = "insertQuestions" /\ editor'.pc = "left") =>
          LET stored == {q \in store'.questions : q.exam_id = editor.examId}
              N == Len(editor.questions)
          IN  /\ Cardinality(stored) = N
              /\ \A index \in 0..(N - 1) :
                    Cardinality({q \in stored :
                        SameQuestion(q, editor.questions[index + 1], index)}) = 1]_vars

\* ---- C30 ----------------------------------------------------------------
\* C30: when handleSave returns in edit mode, after a success or a failure,
\* the exam has at least one stored question.
C30_EditKeepsQuestions ==
    [][(isEditing /\ editor.saving /\ ~editor'.saving) =>
          {q \in store'.questions : q.exam_id = editor.id} # {}]_vars

\* ---- C25 ----------------------------------------------------------------
\* the role user_roles stores for uid, "null" when it stores none
StoredRole(uid) ==
    IF \E r \in user_roles : r.user_id = uid
    THEN (CHOOSE r \in user_roles : r.user_id = uid).role
    ELSE NoRole

\* C25: in every state of the AuthProvider where loading is false and user
\* is non-null, role is the stored role of that user, so that HomeRedirect
\* never sends a signed-in admin to /student.
C25_RoleResolvedWhenLoaded ==
    \A b \in Open :
        (~browser[b].loading /\ browser[b].user # NoUser) =>
            browser[b].role = StoredRole(browser[b].user)

\* ---- C26 ----------------------------------------------------------------
\* C26: in every state of the AuthProvider, user = null implies role = null.
C26_NoRoleWithoutUser ==
    \A b \in Open : browser[b].user = NoUser => browser[b].role = NoRole

\* ---- C28 ----------------------------------------------------------------
\* C28: in the admin exam list, once every handleDelete and toggleActive
\* call made has completed successfully, the list shown agrees with the data
\* store: no deleted exam, and the stored is_active of every remaining exam.
C28_ListAgreesWithStore ==
    (/\ manage.loaded
     /\ manage.calls = {}
     /\ ~manage.failed)
    => manage.exams = {Shown(e) : e \in store.exams}

====
